---- MODULE Spec2Model ----
(***************************************************************************)
(* Model of src/main.ts: the to-do list's in-memory state, its CRUD        *)
(* handlers, the derivation helpers, render() and the localStorage         *)
(* persistence of the task list.                                           *)
(*                                                                         *)
(* Representation.  A JavaScript string is a sequence of one-character     *)
(* strings.  An optional value (description?, dueDate?, the result of      *)
(* prompt()) is <<>> for undefined/null and <<v>> for the value v.  A task *)
(* id, a string in the code, is a number of Ids.  Texts are written in     *)
(* ASCII: the accented letters of the seed titles and of the alert texts   *)
(* are written unaccented.                                                 *)
(***************************************************************************)
EXTENDS Integers, Sequences, FiniteSets, TLC

VARIABLES
    state,          \* the AppState: tasks, filter, search
    localStorage,   \* the item stored under STORAGE_KEY
    dom,            \* what render() last put in the document
    now,            \* the last reading of Date.now()
    storeThrows,    \* the host's localStorage throws on access
    hasRandomUUID,  \* the host has crypto.randomUUID
    lastOp          \* the handler that ran last: its name, how it returned,
                    \* the alert it showed, whether it reached saveTasks()

vars == <<state, localStorage, dom, now, storeThrows, hasRandomUUID, lastOp>>

\* the host: whether localStorage throws, whether crypto.randomUUID exists
host == <<storeThrows, hasRandomUUID>>

(***************************************************************************)
(* Bounds of the model.                                                    *)
(***************************************************************************)
MaxTasks == 2      \* addTask is taken on lists shorter than this only
StartTime == 100000 \* Date.now() when the page is first opened
TickMs == 1        \* milliseconds by which the clock advances, once at most
LastTime == StartTime + TickMs

SeedCount == 3     \* the tasks the initialisation seeds an empty list with

\* the id strings: one more than a full list carries, so that an id no task
\* carries always exists
Ids == 1..((IF MaxTasks > SeedCount THEN MaxTasks ELSE SeedCount) + 1)

\* uid(), given the ids in use.  crypto.randomUUID() returns a string no task
\* carries; ids are compared for equality only, so the least unused one stands
\* for all of them.  Without it the id is eight base-36 digits of
\* Math.random(), which nothing compares with the ids in use: the draw may
\* also be a string that is already carried.
uid(used, randomUUID) ==
    {CHOOSE i \in Ids \ used : \A j \in Ids \ used : i <= j}
      \cup (IF randomUUID THEN {} ELSE used)

\* Date.now(): the clock never runs backwards; prev is the last reading
DateNow(prev) ==
    {prev} \cup (IF prev < LastTime THEN {prev + TickMs} ELSE {})

IdsOf(tasks) == {tasks[i].id : i \in 1..Len(tasks)}

(***************************************************************************)
(* Strings.                                                                *)
(***************************************************************************)
Upper == <<"A", "B", "C", "D", "E", "F", "G", "H", "I", "J", "K", "L", "M",
           "N", "O", "P", "Q", "R", "S", "T", "U", "V", "W", "X", "Y", "Z">>
Lower == <<"a", "b", "c", "d", "e", "f", "g", "h", "i", "j", "k", "l", "m",
           "n", "o", "p", "q", "r", "s", "t", "u", "v", "w", "x", "y", "z">>

WhiteSpace == {" ", "\t", "\n"}

LowerChar(c) ==
    IF \E i \in 1..Len(Upper) : Upper[i] = c
    THEN Lower[CHOOSE i \in 1..Len(Upper) : Upper[i] = c]
    ELSE c

\* String.prototype.toLowerCase
toLowerCase(s) == [i \in 1..Len(s) |-> LowerChar(s[i])]

RECURSIVE TrimStart(_)
TrimStart(s) ==
    IF s # <<>> /\ Head(s) \in WhiteSpace THEN TrimStart(Tail(s)) ELSE s

RECURSIVE TrimEnd(_)
TrimEnd(s) ==
    IF s # <<>> /\ s[Len(s)] \in WhiteSpace
    THEN TrimEnd(SubSeq(s, 1, Len(s) - 1))
    ELSE s

\* String.prototype.trim
trim(s) == TrimEnd(TrimStart(s))

\* String.prototype.includes
includes(s, q) ==
    \E i \in 1..(Len(s) - Len(q) + 1) : SubSeq(s, i, i + Len(q) - 1) = q

Undefined == <<>>

(***************************************************************************)
(* Inputs: what the user types, picks and answers.                         *)
(***************************************************************************)
TitleInputs == { <<>>, <<" ", " ">>, <<" ", "A", "b", " ">> }

\* the form beside the title: description, due date (in ms, as
\* new Date(value).getTime() gives it; <<>> for an empty field), the selects
FormInputs ==
    { [description |-> <<" ", "d", " ">>, dueDate |-> <<StartTime + TickMs>>,
       prioridad |-> "alta", categoria |-> "espanol"] }

\* prompt() returns null (cancel) or the text typed
PromptAnswers == {Undefined} \cup { <<t>> : t \in TitleInputs }

SearchInputs == { <<>>, <<"a", "B">> }

Filters == {"all", "active", "done"}

(***************************************************************************)
(* Persistence: the item stored under STORAGE_KEY.                         *)
(***************************************************************************)
STORAGE_KEY == "todo-app-tasks"

NoItem == [kind |-> "null"]              \* getItem returns null
Garbage == [kind |-> "text"]             \* a text that is not JSON

TaskKeys == {"id", "title", "description", "done", "createdAt", "dueDate",
             "prioridad", "categoria"}

\* the properties the Task interface marks with ?, which may hold undefined
OptionalKeys == {"description", "dueDate", "categoria"}

\* a serialization that leaves every optional property out
StringifyTaskRequiredOnly(t) == [k \in TaskKeys \ OptionalKeys |-> t[k]]

\* JSON.stringify of one task: a property whose value is undefined is left out
StringifyTask(t) ==
    LET omitted == {f \in OptionalKeys : t[f] = Undefined}
    IN  [k \in TaskKeys \ omitted |-> t[k]]

\* JSON.stringify of the task array
JSONstringify(tasks) ==
    [kind |-> "json", items |-> [i \in 1..Len(tasks) |-> StringifyTask(tasks[i])]]

Property(o, k) == IF k \in DOMAIN o THEN o[k] ELSE Undefined

\* the object JSON.parse builds, read through the Task interface
ParseTask(o) == [k \in TaskKeys |-> Property(o, k)]

\* JSON.parse of a text JSONstringify produced
JSONparse(text) == [i \in 1..Len(text.items) |-> ParseTask(text.items[i])]

\* saveTasks: the item under STORAGE_KEY afterwards
saveTasks(tasks, item, throws) ==
    IF throws THEN item ELSE JSONstringify(tasks)

\* loadTasks reading the item whether or not the store throws
loadTasksUnguarded(item, throws) ==
    IF item.kind = "json" THEN JSONparse(item) ELSE <<>>

\* loadTasks
loadTasks(item, throws) ==
    IF throws THEN <<>>
    ELSE IF item.kind = "null" THEN <<>>
    ELSE IF item.kind = "json" THEN JSONparse(item)
    ELSE <<>>

\* clearAllStorage: the item under STORAGE_KEY afterwards
clearAllStorage(item, throws) ==
    IF throws THEN item ELSE NoItem

(***************************************************************************)
(* Helpers.                                                                *)
(***************************************************************************)
IsDone(t) == t.done
NotDone(t) == ~t.done

\* visibleTasks with a case-sensitive search
visibleTasksCaseSensitive(st) ==
    LET filtered == CASE st.filter = "active" -> SelectSeq(st.tasks, NotDone)
                      [] st.filter = "done" -> SelectSeq(st.tasks, IsDone)
                      [] OTHER -> st.tasks
        query == st.search
        Matches(t) == includes(t.title, query)
    IN  IF query # <<>> THEN SelectSeq(filtered, Matches) ELSE filtered

\* visibleTasks, of the state st
visibleTasksOf(st) ==
    LET filtered == CASE st.filter = "active" -> SelectSeq(st.tasks, NotDone)
                      [] st.filter = "done" -> SelectSeq(st.tasks, IsDone)
                      [] OTHER -> st.tasks
        query == toLowerCase(st.search)
        Matches(t) == includes(toLowerCase(t.title), query)
    IN  IF query # <<>> THEN SelectSeq(filtered, Matches) ELSE filtered

visibleTasks == visibleTasksOf(state)

\* render counting the tasks it lists, not the tasks of the state
renderDomCountsVisible(st) ==
    LET total == Len(visibleTasksOf(st))
        done == Len(SelectSeq(visibleTasksOf(st), IsDone))
    IN  [list |-> visibleTasksOf(st),
         total |-> total, done |-> done, active |-> total - done]

\* render: what it leaves in the document
renderDom(st) ==
    LET total == Len(st.tasks)
        done == Len(SelectSeq(st.tasks, IsDone))
    IN  [list |-> visibleTasksOf(st),
         total |-> total, done |-> done, active |-> total - done]

\* the seed of the initialisation, with the three ids uid() returned
SeedTasks(a, b, c, t) ==
    << [id |-> a, title |-> <<"R", "e", "v", "i", "s", "a", "r", " ",
                             "T", "y", "p", "e", "S", "c", "r", "i", "p", "t">>,
        description |-> Undefined, done |-> TRUE, createdAt |-> t - 60000,
        dueDate |-> Undefined, prioridad |-> "media",
        categoria |-> <<"matematicas">>],
       [id |-> b, title |-> <<"A", "g", "r", "e", "g", "a", "r", " ",
                             "v", "a", "l", "i", "d", "a", "c", "i", "o", "n",
                             " ", "d", "e", " ", "t", "i", "p", "o", "s">>,
        description |-> Undefined, done |-> FALSE, createdAt |-> t - 40000,
        dueDate |-> Undefined, prioridad |-> "alta",
        categoria |-> <<"espanol">>],
       [id |-> c, title |-> <<"P", "r", "o", "b", "a", "r", " ",
                             "f", "i", "l", "t", "r", "o", "s", " ", "y", " ",
                             "c", "a", "r", "d", "s">>,
        description |-> Undefined, done |-> FALSE, createdAt |-> t - 20000,
        dueDate |-> Undefined, prioridad |-> "baja",
        categoria |-> <<"matematicas">>] >>

Op(name, outcome, alert, saved) ==
    [op |-> name, outcome |-> outcome, alert |-> alert, saved |-> saved]

NotFoundMsg == "No se encontro la tarea."
EmptyTitleMsg == "El titulo no puede estar vacio."

\* the top level without the seed: the loaded list is rendered as it is
BootNoSeed(item, throws, a, b, c, t) ==
    LET st == [tasks |-> loadTasks(item, throws), filter |-> "all",
               search |-> <<>>]
    IN  [state |-> st, dom |-> renderDom(st),
         item |-> saveTasks(st.tasks, item, throws)]

\* the script's top level: load, seed when empty, render
Boot(item, throws, a, b, c, t) ==
    LET loaded == loadTasks(item, throws)
        tasks == IF Len(loaded) = 0 THEN SeedTasks(a, b, c, t) ELSE loaded
        st == [tasks |-> tasks, filter |-> "all", search |-> <<>>]
    IN  [state |-> st, dom |-> renderDom(st),
         item |-> saveTasks(tasks, item, throws)]

\* the state once the script has run on a first visit, on a host of the given kind
InitOn(throws, randomUUID) ==
    /\ now = StartTime
    /\ storeThrows = throws
    /\ hasRandomUUID = randomUUID
    /\ \E a \in uid({}, randomUUID), item \in {NoItem, Garbage} :
       \E b \in uid({a}, randomUUID) : \E c \in uid({a, b}, randomUUID) :
         LET boot == Boot(item, throws, a, b, c, now)
         IN  /\ state = boot.state
             /\ dom = boot.dom
             /\ localStorage = boot.item
    /\ lastOp = Op("init", "done", "none", TRUE)

Init == InitOn(FALSE, TRUE)

\* a page reload: the script runs again on the stored item
Reload ==
    \E a \in uid({}, hasRandomUUID), t \in DateNow(now) :
    \E b \in uid({a}, hasRandomUUID) : \E c \in uid({a, b}, hasRandomUUID) :
      LET boot == Boot(localStorage, storeThrows, a, b, c, t)
      IN  /\ state' = boot.state
          /\ dom' = boot.dom
          /\ localStorage' = boot.item
          /\ now' = t
          /\ lastOp' = Op("init", "done", "none", TRUE)
          /\ UNCHANGED host

\* the tail of every handler that reaches render(): the document and the store
Render ==
    /\ dom' = renderDom(state')
    /\ localStorage' = saveTasks(state'.tasks, localStorage, storeThrows)

\* the new task with the priority select ignored
NewTaskDefaultPriority(id, title, form, t) ==
    [id |-> id, title |-> title,
     description |-> IF trim(form.description) # <<>>
                     THEN <<trim(form.description)>> ELSE Undefined,
     done |-> FALSE, createdAt |-> t, dueDate |-> form.dueDate,
     prioridad |-> "media", categoria |-> <<form.categoria>>]

NewTask(id, title, form, t) ==
    [id |-> id, title |-> title,
     description |-> IF trim(form.description) # <<>>
                     THEN <<trim(form.description)>> ELSE Undefined,
     done |-> FALSE, createdAt |-> t, dueDate |-> form.dueDate,
     prioridad |-> form.prioridad, categoria |-> <<form.categoria>>]

\* addTask testing the title as typed, not trimmed
addTaskNoTrim(title, form, id, t) ==
    IF title = <<>>
    THEN /\ lastOp' = Op("addTask", "aborted", "none", FALSE)
         /\ UNCHANGED <<state, localStorage, dom, now, host>>
    ELSE /\ Len(state.tasks) < MaxTasks
         /\ state' = [state EXCEPT
                        !.tasks = <<NewTask(id, trim(title), form, t)>> \o @]
         /\ Render
         /\ now' = t
         /\ lastOp' = Op("addTask", "done", "none", TRUE)
         /\ UNCHANGED host

\* addTask with push in place of unshift
addTaskPush(title, form, id, t) ==
    LET trimmed == trim(title)
    IN  IF trimmed = <<>>
        THEN /\ lastOp' = Op("addTask", "aborted", "none", FALSE)
             /\ UNCHANGED <<state, localStorage, dom, now, host>>
        ELSE /\ Len(state.tasks) < MaxTasks
             /\ state' = [state EXCEPT
                            !.tasks = @ \o <<NewTask(id, trimmed, form, t)>>]
             /\ Render
             /\ now' = t
             /\ lastOp' = Op("addTask", "done", "none", TRUE)
             /\ UNCHANGED host

addTask(title, form, id, t) ==
    LET trimmed == trim(title)
    IN  IF trimmed = <<>>
        THEN /\ lastOp' = Op("addTask", "aborted", "none", FALSE)
             /\ UNCHANGED <<state, localStorage, dom, now, host>>
        ELSE /\ Len(state.tasks) < MaxTasks
             /\ state' = [state EXCEPT
                            !.tasks = <<NewTask(id, trimmed, form, t)>> \o @]
             /\ Render
             /\ now' = t
             /\ lastOp' = Op("addTask", "done", "none", TRUE)
             /\ UNCHANGED host

\* Array.prototype.find with x => x.id === id: is there such a task
found(tasks, id) == \E i \in 1..Len(tasks) : tasks[i].id = id

\* toggle that marks done instead of flipping
toggledSetsDone(tasks, id) ==
    [i \in 1..Len(tasks) |->
       IF tasks[i].id = id THEN [tasks[i] EXCEPT !.done = TRUE] ELSE tasks[i]]

\* state.tasks.map(t => (t.id === id ? { ...t, done: !t.done } : t))
toggled(tasks, id) ==
    [i \in 1..Len(tasks) |->
       IF tasks[i].id = id THEN [tasks[i] EXCEPT !.done = ~tasks[i].done]
       ELSE tasks[i]]

toggleTask(id) ==
    /\ state' = [state EXCEPT !.tasks = toggled(@, id)]
    /\ Render
    /\ lastOp' = Op("toggleTask", "done", "none", TRUE)
    /\ UNCHANGED <<now, host>>

removeTask(id) ==
    LET Other(t) == t.id # id
    IN  /\ state' = [state EXCEPT !.tasks = SelectSeq(@, Other)]
        /\ Render
        /\ lastOp' = Op("removeTask", "done", "none", TRUE)
        /\ UNCHANGED <<now, host>>

\* clearDone with the test inverted: it keeps the completed tasks
clearDoneInverted ==
    /\ state' = [state EXCEPT !.tasks = SelectSeq(@, IsDone)]
    /\ Render
    /\ lastOp' = Op("clearDone", "done", "none", TRUE)
    /\ UNCHANGED <<now, host>>

clearDone ==
    /\ state' = [state EXCEPT !.tasks = SelectSeq(@, NotDone)]
    /\ Render
    /\ lastOp' = Op("clearDone", "done", "none", TRUE)
    /\ UNCHANGED <<now, host>>

setFilter(f) ==
    /\ state' = [state EXCEPT !.filter = f]
    /\ Render
    /\ lastOp' = Op("setFilter", "done", "none", TRUE)
    /\ UNCHANGED <<now, host>>

setSearch(q) ==
    /\ state' = [state EXCEPT !.search = q]
    /\ Render
    /\ lastOp' = Op("setSearch", "done", "none", TRUE)
    /\ UNCHANGED <<now, host>>

viewTask(id) ==
    /\ lastOp' = IF found(state.tasks, id)
                 THEN Op("viewTask", "done", "detail", FALSE)
                 ELSE Op("viewTask", "aborted", NotFoundMsg, FALSE)
    /\ UNCHANGED <<state, localStorage, dom, now, host>>

\* edit that retitles every task, the id test forgotten
retitledAll(tasks, id, trimmed) ==
    [i \in 1..Len(tasks) |-> [tasks[i] EXCEPT !.title = trimmed]]

\* state.tasks.map(x => (x.id === id ? { ...x, title: trimmed } : x))
retitled(tasks, id, trimmed) ==
    [i \in 1..Len(tasks) |->
       IF tasks[i].id = id THEN [tasks[i] EXCEPT !.title = trimmed] ELSE tasks[i]]

\* edit without the test for an empty title
editTaskTitleNoCheck(id, nuevo) ==
    IF ~found(state.tasks, id)
    THEN /\ lastOp' = Op("editTaskTitle", "aborted", NotFoundMsg, FALSE)
         /\ UNCHANGED <<state, localStorage, dom, now, host>>
    ELSE IF nuevo = Undefined
    THEN /\ lastOp' = Op("editTaskTitle", "aborted", "none", FALSE)
         /\ UNCHANGED <<state, localStorage, dom, now, host>>
    ELSE /\ state' = [state EXCEPT !.tasks = retitled(@, id, trim(nuevo[1]))]
         /\ Render
         /\ lastOp' = Op("editTaskTitle", "done", "none", TRUE)
         /\ UNCHANGED <<now, host>>

editTaskTitle(id, nuevo) ==
    IF ~found(state.tasks, id)
    THEN /\ lastOp' = Op("editTaskTitle", "aborted", NotFoundMsg, FALSE)
         /\ UNCHANGED <<state, localStorage, dom, now, host>>
    ELSE IF nuevo = Undefined
    THEN /\ lastOp' = Op("editTaskTitle", "aborted", "none", FALSE)
         /\ UNCHANGED <<state, localStorage, dom, now, host>>
    ELSE IF trim(nuevo[1]) = <<>>
    THEN /\ lastOp' = Op("editTaskTitle", "aborted", EmptyTitleMsg, FALSE)
         /\ UNCHANGED <<state, localStorage, dom, now, host>>
    ELSE /\ state' = [state EXCEPT !.tasks = retitled(@, id, trim(nuevo[1]))]
         /\ Render
         /\ lastOp' = Op("editTaskTitle", "done", "none", TRUE)
         /\ UNCHANGED <<now, host>>

\* resetAll without the save at the end of render
resetAllNoSave(ok) ==
    IF ~ok
    THEN /\ lastOp' = Op("resetAll", "aborted", "none", FALSE)
         /\ UNCHANGED <<state, localStorage, dom, now, host>>
    ELSE /\ state' = [state EXCEPT !.tasks = <<>>]
         /\ dom' = renderDom(state')
         /\ localStorage' = clearAllStorage(localStorage, storeThrows)
         /\ lastOp' = Op("resetAll", "done", "none", TRUE)
         /\ UNCHANGED <<now, host>>

resetAll(ok) ==
    IF ~ok
    THEN /\ lastOp' = Op("resetAll", "aborted", "none", FALSE)
         /\ UNCHANGED <<state, localStorage, dom, now, host>>
    ELSE /\ state' = [state EXCEPT !.tasks = <<>>]
         /\ dom' = renderDom(state')
         /\ localStorage' =
              saveTasks(state'.tasks,
                        clearAllStorage(localStorage, storeThrows), storeThrows)
         /\ lastOp' = Op("resetAll", "done", "none", TRUE)
         /\ UNCHANGED <<now, host>>

Next ==
    \/ \E title \in TitleInputs, form \in FormInputs, t \in DateNow(now) :
         \E id \in uid(IdsOf(state.tasks), hasRandomUUID) :
           addTask(title, form, id, t)
    \/ \E id \in Ids : toggleTask(id)
    \/ \E id \in Ids : removeTask(id)
    \/ clearDone
    \/ \E f \in Filters : setFilter(f)
    \/ \E q \in SearchInputs : setSearch(q)
    \/ \E id \in Ids : viewTask(id)
    \/ \E id \in Ids, nuevo \in PromptAnswers : editTaskTitle(id, nuevo)
    \/ \E ok \in BOOLEAN : resetAll(ok)
    \/ Reload

Spec == Init /\ [][Next]_vars

\* a host without crypto.randomUUID: uid() falls back on Math.random()
InitFallback == InitOn(FALSE, FALSE)

NextFallback ==
    \/ \E title \in TitleInputs, form \in FormInputs, t \in DateNow(now) :
         \E id \in uid(IdsOf(state.tasks), hasRandomUUID) :
           addTask(title, form, id, t)
    \/ \E id \in Ids : toggleTask(id)
    \/ \E id \in Ids : removeTask(id)
    \/ \E ok \in BOOLEAN : resetAll(ok)
    \/ Reload

SpecFallback == InitFallback /\ [][NextFallback]_vars

\* what an earlier visit, the store still working, left under STORAGE_KEY
StoredItems == {JSONstringify(<<SeedTasks(1, 2, 3, StartTime)[2]>>)}

\* a host whose localStorage throws on every call (storage disabled or
\* full), the script running on what an earlier visit left
InitStoreThrows ==
    /\ now = StartTime
    /\ storeThrows = TRUE
    /\ hasRandomUUID = TRUE
    /\ \E a \in uid({}, TRUE), item \in StoredItems :
       \E b \in uid({a}, TRUE) : \E c \in uid({a, b}, TRUE) :
         LET boot == Boot(item, TRUE, a, b, c, now)
         IN  /\ state = boot.state
             /\ dom = boot.dom
             /\ localStorage = boot.item
    /\ lastOp = Op("init", "done", "none", TRUE)

\* the page on either host: the store works, or it throws
SpecStore == (Init \/ InitStoreThrows) /\ [][Next]_vars

(***************************************************************************)
(* Due dates: isOverdue and getDueDateStatus, which render applies to each *)
(* card, on a list whose task has a due date around the bands' edges.      *)
(***************************************************************************)
dayInMs == 24 * 60 * 60 * 1000

\* the truth value JavaScript gives an optional number: undefined and 0 are
\* falsy
Truthy(opt) == opt # Undefined /\ opt[1] # 0

\* isOverdue, t being what Date.now() returns
isOverdue(task, t) == Truthy(task.dueDate) /\ task.dueDate[1] < t /\ ~task.done

\* getDueDateStatus, t being what Date.now() returns
getDueDateStatus(task, t) ==
    IF ~Truthy(task.dueDate) \/ task.done THEN "normal"
    ELSE LET due == task.dueDate[1]
         IN  IF due < t THEN "overdue"
             ELSE IF due < t + dayInMs THEN "today"
             ELSE IF due < t + (3 * dayInMs) THEN "soon"
             ELSE "normal"

\* the distances from the first clock reading to the due dates tried
DueOffsets ==
    {-1, 0, 1, dayInMs - 1, dayInMs, dayInMs + 1,
     (3 * dayInMs) - 1, 3 * dayInMs, (3 * dayInMs) + 1}

\* what the date field gives addTask: nothing, 1 January 1970 (time 0), or a
\* date at one of the distances
DueDates == {Undefined, <<0>>} \cup { <<StartTime + o>> : o \in DueOffsets }

\* a visit on a stored list of one task with a due date
InitDue ==
    /\ now = StartTime
    /\ storeThrows = FALSE
    /\ hasRandomUUID = TRUE
    /\ \E due \in DueDates, done \in BOOLEAN, form \in FormInputs :
         LET task == [NewTask(1, <<"A", "b">>, form, StartTime)
                        EXCEPT !.dueDate = due, !.done = done]
             boot == Boot(JSONstringify(<<task>>), FALSE, 1, 2, 3, now)
         IN  /\ state = boot.state
             /\ dom = boot.dom
             /\ localStorage = boot.item
    /\ lastOp = Op("init", "done", "none", TRUE)

\* render asks isOverdue for the card of task i
cardIsOverdue(i, t) ==
    /\ lastOp' = Op("isOverdue", isOverdue(state.tasks[i], t), "none", FALSE)
    /\ now' = t
    /\ UNCHANGED <<state, localStorage, dom, host>>

\* render asks getDueDateStatus for the card of task i
cardDueDateStatus(i, t) ==
    /\ lastOp' = Op("getDueDateStatus", getDueDateStatus(state.tasks[i], t),
                    "none", FALSE)
    /\ now' = t
    /\ UNCHANGED <<state, localStorage, dom, host>>

NextDue ==
    \/ \E i \in 1..Len(state.tasks), t \in DateNow(now) : cardIsOverdue(i, t)
    \/ \E i \in 1..Len(state.tasks), t \in DateNow(now) : cardDueDateStatus(i, t)
    \/ \E id \in Ids : toggleTask(id)

SpecDue == InitDue /\ [][NextDue]_vars

(***************************************************************************)
(* Properties.                                                             *)
(***************************************************************************)
Tasks == state.tasks

Did(name) == lastOp.op = name /\ lastOp.outcome = "done"
Aborted(name) == lastOp.op = name /\ lastOp.outcome = "aborted"

\* the step is a call of the handler name (every handler records itself)
Calls(name) == lastOp'.op = name

\* the inputs of a handler call
AddCalls == TitleInputs \X FormInputs \X Ids \X {StartTime, LastTime}
Blank(title) == trim(title) = <<>>

\* C1: while the store accepts writes, the item stored under STORAGE_KEY is the
\* serialization of the in-memory tasks list, after every operation.
C1_StoredIsSerializedTasks ==
    ~storeThrows => localStorage = JSONstringify(Tasks)

C1_Witness ==
    /\ Did("resetAll")
    /\ ~storeThrows
    /\ localStorage = JSONstringify(<<>>)

\* C2: once a confirmed resetAll has completed, tasks is empty and no item is
\* stored under STORAGE_KEY.
C2_ResetLeavesNoItem ==
    Did("resetAll") => (Tasks = <<>> /\ localStorage = NoItem)

\* C3: addTask with a title that is blank after trimming, editTaskTitle with a
\* cancelled prompt or a blank new title, and a declined resetAll leave tasks,
\* filter, search, the document and the stored item as they were, and do not
\* persist.
AbortedCall ==
    \/ /\ Calls("addTask")
       /\ \E c \in AddCalls : Blank(c[1]) /\ addTask(c[1], c[2], c[3], c[4])
    \/ /\ Calls("editTaskTitle")
       /\ \E id \in Ids, nuevo \in PromptAnswers :
            /\ nuevo = Undefined \/ Blank(nuevo[1])
            /\ editTaskTitle(id, nuevo)
    \/ /\ Calls("resetAll")
       /\ resetAll(FALSE)

C3_AbortChangesNothing ==
    [][AbortedCall =>
         /\ state' = state
         /\ localStorage' = localStorage
         /\ dom' = dom
         /\ ~lastOp'.saved]_vars

C3_Witness ==
    /\ Aborted("editTaskTitle")
    /\ lastOp.alert = EmptyTitleMsg
    /\ Len(Tasks) > 0

Fields(t) ==
    [title |-> t.title, description |-> t.description, done |-> t.done,
     dueDate |-> t.dueDate, prioridad |-> t.prioridad, categoria |-> t.categoria]

\* the fields addTask is asked to store
Submitted(title, form) ==
    [title |-> trim(title),
     description |-> IF Blank(form.description) THEN Undefined
                     ELSE <<trim(form.description)>>,
     done |-> FALSE, dueDate |-> form.dueDate,
     prioridad |-> form.prioridad, categoria |-> <<form.categoria>>]

\* visibleTasks under filter "all" and an empty search
VisibleAll(tasks) == visibleTasksOf([tasks |-> tasks, filter |-> "all", search |-> <<>>])

Count(tasks, fields) ==
    Cardinality({i \in 1..Len(tasks) : Fields(tasks[i]) = fields})

\* C5, as stated: right after an addTask that added a task t, visibleTasks
\* under "all" and an empty search holds exactly one task with t's fields
\* (other than id and createdAt).
C5_ExactlyOneLikeAdded ==
    Did("addTask") => Count(VisibleAll(Tasks), Fields(Tasks[1])) = 1

\* C5, amended: the addTask adds exactly one task with t's fields to what
\* visibleTasks under "all" and an empty search holds: one more than before.
C5_OneMoreLikeAdded ==
    [][\A c \in AddCalls :
         (Calls("addTask") /\ ~Blank(c[1]) /\ addTask(c[1], c[2], c[3], c[4])) =>
           Count(VisibleAll(Tasks'), Submitted(c[1], c[2]))
             = Count(VisibleAll(Tasks), Submitted(c[1], c[2])) + 1]_vars

C5_Witness ==
    /\ Did("addTask")
    /\ Count(VisibleAll(Tasks), Fields(Tasks[1])) = 2

\* C6: no two tasks of the list share an id.
C6_UniqueIds ==
    \A i, j \in 1..Len(Tasks) : i # j => Tasks[i].id # Tasks[j].id

\* C7: one toggleTask(id) flips done of the tasks with that id and changes
\* nothing else (no other field, no other task, not the order); a second one
\* restores the list; on an id no task has, the list is unchanged.
C7_ToggleFlipsDoneOnly ==
    [][\A id \in Ids :
         (Calls("toggleTask") /\ toggleTask(id)) =>
           /\ Len(Tasks') = Len(Tasks)
           /\ \A i \in 1..Len(Tasks) :
                Tasks'[i] = IF Tasks[i].id = id
                            THEN [Tasks[i] EXCEPT !.done = ~Tasks[i].done]
                            ELSE Tasks[i]
           /\ toggled(Tasks', id) = Tasks
           /\ id \notin IdsOf(Tasks) => Tasks' = Tasks]_vars

C7_Witness ==
    /\ Did("toggleTask")
    /\ Len(Tasks) = 3
    /\ Tasks[1].done /\ Tasks[2].done /\ ~Tasks[3].done

\* C8: toggleTask and editTaskTitle change no id and no createdAt; an
\* editTaskTitle that goes through sets the title of the tasks with that id to
\* the trimmed text and changes nothing else.  (The last conjunct reads
\* "editTaskTitle(id, nuevo) implies the list is retitled so", the conclusion
\* first.)
C8_EditReplacesTitleOnly ==
    [][/\ (Calls("toggleTask") \/ Calls("editTaskTitle")) =>
            /\ Len(Tasks') = Len(Tasks)
            /\ \A i \in 1..Len(Tasks) :
                 /\ Tasks'[i].id = Tasks[i].id
                 /\ Tasks'[i].createdAt = Tasks[i].createdAt
       /\ Calls("editTaskTitle") =>
            \A id \in Ids, nuevo \in PromptAnswers :
              \/ \A i \in 1..Len(Tasks) :
                   Tasks'[i] =
                     IF Tasks[i].id = id /\ nuevo # Undefined /\ ~Blank(nuevo[1])
                     THEN [Tasks[i] EXCEPT !.title = trim(nuevo[1])]
                     ELSE Tasks[i]
              \/ ~editTaskTitle(id, nuevo)]_vars

C8_Witness ==
    /\ Did("editTaskTitle")
    /\ Len(Tasks) = 3
    /\ Tasks[2].title = <<"A", "b">>
    /\ Tasks[1].title # <<"A", "b">>
    /\ Tasks[3].title # <<"A", "b">>

\* C9: every task of the list has a title that is not blank after trimming.
C9_NoBlankTitle ==
    \A i \in 1..Len(Tasks) : ~Blank(Tasks[i].title)

C9_Witness ==
    /\ Aborted("addTask")
    /\ \E i \in 1..Len(Tasks) : Tasks[i].title = <<"A", "b">>

\* C10: visibleTasks is the subsequence of tasks, in their order, of the tasks
\* that pass the filter and whose title contains the search text, compared
\* without regard to case; every task passes an empty search.
PassesFilter(t) ==
    \/ state.filter = "all"
    \/ state.filter = "active" /\ ~t.done
    \/ state.filter = "done" /\ t.done

PassesSearch(t) ==
    \/ state.search = <<>>
    \/ \E p \in 0..(Len(t.title) - Len(state.search)) :
         \A n \in 1..Len(state.search) :
           LowerChar(t.title[p + n]) = LowerChar(state.search[n])

Passing == {i \in 1..Len(Tasks) : PassesFilter(Tasks[i]) /\ PassesSearch(Tasks[i])}

\* the k-th smallest position of Passing
Nth(k) == CHOOSE i \in Passing : Cardinality({j \in Passing : j <= i}) = k

C10_VisibleIsFilteredSubsequence ==
    /\ Len(visibleTasks) = Cardinality(Passing)
    /\ \A k \in 1..Len(visibleTasks) : visibleTasks[k] = Tasks[Nth(k)]

C10_Witness ==
    /\ state.filter = "active"
    /\ state.search = <<"a", "B">>
    /\ Len(Tasks) = 3
    /\ Len(visibleTasks) = 1
    /\ visibleTasks[1] = Tasks[2]

\* the positions of the tasks of a list that are not completed
Open(tasks) == {i \in 1..Len(tasks) : ~tasks[i].done}

\* the k-th smallest member of a set of positions
NthOf(set, k) == CHOOSE i \in set : Cardinality({j \in set : j <= i}) = k

\* C11: after clearDone, tasks is the subsequence of the list before made of
\* the tasks with done = false, each unchanged and in the order they had; no
\* task with done = true is left.
C11_ClearDoneKeepsOpenTasks ==
    [][(Calls("clearDone") /\ clearDone) =>
         /\ Len(Tasks') = Cardinality(Open(Tasks))
         /\ \A k \in 1..Len(Tasks') : Tasks'[k] = Tasks[NthOf(Open(Tasks), k)]
         /\ \A k \in 1..Len(Tasks') : ~Tasks'[k].done]_vars

C11_Witness ==
    /\ Did("clearDone")
    /\ Len(Tasks) = 2
    /\ dom.total = 2
    /\ Tasks[1].prioridad = "alta" /\ Tasks[2].prioridad = "baja"

\* C12: loading what saving a list wrote gives the list back, field for field
\* and in order; a reload on a list that is not empty leaves that list in
\* state.tasks.
C12_LoadOfSaveIsIdentity ==
    /\ [](loadTasks(saveTasks(Tasks, localStorage, FALSE), FALSE) = Tasks)
    /\ [][(Calls("init") /\ Tasks # <<>> /\ Reload) => Tasks' = Tasks]_vars

C12_Witness ==
    /\ Did("init")
    /\ Len(Tasks) = 2
    /\ Tasks[1].description = << <<"d">> >>
    /\ Tasks[1].dueDate # Undefined
    /\ Tasks[2].description = Undefined
    /\ Tasks[2].done

\* the effect of the step on tasks, filter and search, the store left aside
InMemory ==
    LET op == lastOp'
    IN  IF op.outcome = "aborted" \/ op.op = "viewTask" THEN state' = state
        ELSE CASE op.op = "addTask" ->
                    \E title \in TitleInputs, form \in FormInputs :
                      /\ ~Blank(title)
                      /\ state' = [state EXCEPT !.tasks =
                           <<NewTask(Tasks'[1].id, trim(title), form, now')>> \o @]
               [] op.op = "toggleTask" ->
                    \E id \in Ids : state' = [state EXCEPT !.tasks = toggled(@, id)]
               [] op.op = "removeTask" ->
                    \E id \in Ids :
                      LET Other(t) == t.id # id
                      IN  state' = [state EXCEPT !.tasks = SelectSeq(@, Other)]
               [] op.op = "clearDone" ->
                    state' = [state EXCEPT !.tasks = SelectSeq(@, NotDone)]
               [] op.op = "setFilter" ->
                    \E f \in Filters : state' = [state EXCEPT !.filter = f]
               [] op.op = "setSearch" ->
                    \E q \in SearchInputs : state' = [state EXCEPT !.search = q]
               [] op.op = "editTaskTitle" ->
                    \E id \in Ids, nuevo \in PromptAnswers \ {Undefined} :
                      /\ found(Tasks, id)
                      /\ ~Blank(nuevo[1])
                      /\ state' = [state EXCEPT
                                     !.tasks = retitled(@, id, trim(nuevo[1]))]
               [] op.op = "resetAll" -> state' = [state EXCEPT !.tasks = <<>>]
               [] op.op = "init" ->
                    LET loaded == loadTasks(localStorage, storeThrows)
                    IN  /\ state'.filter = "all" /\ state'.search = <<>>
                        /\ IF Len(loaded) = 0
                           THEN Tasks' = SeedTasks(Tasks'[1].id, Tasks'[2].id,
                                                   Tasks'[3].id, now')
                           ELSE Tasks' = loaded

\* C13: a store that throws never stops an operation.  On either host every
\* step has the same effect on tasks, filter and search and leaves the
\* document rendered from the new state; when the store throws the stored item
\* stays as it was; loadTasks returns the empty list when the store throws,
\* when the key is absent and when the text is not JSON.
C13_StoreFailuresSwallowed ==
    /\ [](storeThrows => loadTasks(localStorage, storeThrows) = <<>>)
    /\ [](loadTasks(NoItem, FALSE) = <<>> /\ loadTasks(Garbage, FALSE) = <<>>)
    /\ [](dom = renderDom(state))
    /\ [][storeThrows => localStorage' = localStorage]_vars
    /\ [][InMemory]_vars

C13_Witness ==
    /\ storeThrows
    /\ localStorage \notin {NoItem, Garbage}
    /\ Did("toggleTask")
    /\ Len(Tasks) = 2
    /\ Tasks[1].title = <<"A", "b">>
    /\ Tasks[2].done

\* C14: a call of addTask whose title is blank once trimmed, and an edit whose
\* new title is blank once trimmed, each show the user a validation message.
C14_BlankTitleShowsMessage ==
    [][/\ (Calls("addTask") /\ \E c \in AddCalls :
              Blank(c[1]) /\ addTask(c[1], c[2], c[3], c[4]))
          => lastOp'.alert = EmptyTitleMsg
       /\ (Calls("editTaskTitle") /\ \E id \in Ids, nuevo \in PromptAnswers :
              /\ found(Tasks, id)
              /\ nuevo # Undefined /\ Blank(nuevo[1])
              /\ editTaskTitle(id, nuevo))
          => lastOp'.alert = EmptyTitleMsg]_vars

\* C15: toggleTask, removeTask, editTaskTitle and viewTask called with an id
\* that no task of the list has show the not-found message and leave tasks
\* as it was.
C15_MissingIdShowsNotFound ==
    [][\A id \in Ids \ IdsOf(Tasks) :
         (\/ Calls("toggleTask") /\ toggleTask(id)
          \/ Calls("removeTask") /\ removeTask(id)
          \/ Calls("viewTask") /\ viewTask(id)
          \/ Calls("editTaskTitle")
               /\ \E nuevo \in PromptAnswers : editTaskTitle(id, nuevo))
         => (lastOp'.alert = NotFoundMsg /\ Tasks' = Tasks)]_vars

\* C16: in every reachable state the list is ordered by createdAt, the most
\* recent first.
C16_MostRecentFirst ==
    \A i, j \in 1..Len(Tasks) : i < j => Tasks[i].createdAt >= Tasks[j].createdAt

\* C17: after the initial load and after every operation, completed or
\* aborted, the rendered list is visibleTasks of the current state and the
\* rendered counters are the number of tasks, of tasks not done and of tasks
\* done.
C17_RenderReflectsState ==
    /\ dom.list = visibleTasks
    /\ dom.total = Len(Tasks)
    /\ dom.active = Cardinality(Open(Tasks))
    /\ dom.done = Cardinality((1..Len(Tasks)) \ Open(Tasks))

C17_Witness ==
    /\ Did("toggleTask")
    /\ state.filter = "active"
    /\ dom.total = 2
    /\ dom.done = 1
    /\ Len(dom.list) = 1

\* the status the bands give a task at the time t, a due date being set
\* when it is not undefined
BandStatus(task, t) ==
    IF task.dueDate = Undefined \/ task.done THEN "normal"
    ELSE LET due == task.dueDate[1]
         IN  CASE due < t -> "overdue"
               [] t <= due /\ due < t + dayInMs -> "today"
               [] t + dayInMs <= due /\ due < t + (3 * dayInMs) -> "soon"
               [] due >= t + (3 * dayInMs) -> "normal"

\* C18: getDueDateStatus is normal for a task without dueDate or done, else
\* overdue below now, today in [now, now + 24h), soon in [now + 24h,
\* now + 72h) and normal from now + 72h on; it is overdue exactly when
\* isOverdue holds, that is when dueDate is set and below now and the task is
\* not done, for every dueDate, 0 included.
C18_DueDateBands ==
    \A i \in 1..Len(Tasks) :
      LET task == Tasks[i]
          late == task.dueDate # Undefined /\ task.dueDate[1] < now /\ ~task.done
      IN  /\ getDueDateStatus(task, now) = BandStatus(task, now)
          /\ isOverdue(task, now) = late
          /\ (getDueDateStatus(task, now) = "overdue") = isOverdue(task, now)
          /\ lastOp.op = "getDueDateStatus" => lastOp.outcome = BandStatus(task, now)
          /\ lastOp.op = "isOverdue" => lastOp.outcome = late

\* the operations that change tasks when they complete
Mutators ==
    {"addTask", "toggleTask", "removeTask", "clearDone", "editTaskTitle",
     "resetAll"}

\* C19: setFilter changes filter only and setSearch changes search only; both
\* leave tasks as it was and write nothing to the store, while every completed
\* addTask, toggleTask, removeTask, clearDone, editTaskTitle and resetAll
\* saves.
C19_FilterAndSearchDoNotSave ==
    [][/\ Calls("setFilter") =>
            /\ \E f \in Filters : state' = [state EXCEPT !.filter = f]
            /\ ~lastOp'.saved
            /\ localStorage' = localStorage
       /\ Calls("setSearch") =>
            /\ \E q \in SearchInputs : state' = [state EXCEPT !.search = q]
            /\ ~lastOp'.saved
            /\ localStorage' = localStorage
       /\ (lastOp'.op \in Mutators /\ lastOp'.outcome = "done") =>
            lastOp'.saved]_vars

\* C20: a reload on an empty list puts the three sample tasks in tasks and
\* stores them; right after an initialisation tasks is never empty.
C20_EmptyListIsReseeded ==
    /\ [](lastOp.op = "init" => Tasks # <<>>)
    /\ [][(Calls("init") /\ Tasks = <<>> /\ Reload) =>
            /\ \E a, b, c \in Ids : Tasks' = SeedTasks(a, b, c, now')
            /\ localStorage' = JSONstringify(Tasks')]_vars

C20_Witness ==
    /\ Did("init")
    /\ now = LastTime
    /\ Len(Tasks) = SeedCount
    /\ Tasks[1].createdAt = LastTime - 60000
    /\ localStorage = JSONstringify(Tasks)

====
